---- MODULE Spec2Model ----
(***************************************************************************)
(* Reminder dispatch engine of RentAlert: the in-memory job registry       *)
(* (createReminderJob, updateJobProgress, getJobStatus, cleanupOldJobs),   *)
(* the background loop processRemindersInBackground and the entry point    *)
(* sendReminders.  One action per resumption of an async function: a step  *)
(* runs from one await to the next, as the Node event loop schedules it.   *)
(***************************************************************************)
EXTENDS Integers, Sequences, FiniteSets, TLC

VARIABLES
    jobs,          \* the registry `jobs` (a Map): job id -> job record
    proc,          \* per job id, the activation of processRemindersInBackground
    tenants,       \* the Tenant collection
    users,         \* the User collection (ids of the users that exist)
    flags,         \* the FeatureFlag collection: key -> enabled
    reminderLogs,  \* the ReminderLog entries written, per writing job
    eventLogs,     \* the EventLog entries written, per writing job
    now,           \* the wall clock (Date.now), in hours
    nextJobId,     \* the next fresh id uuidv4() hands out
    envChanges     \* number of store changes made by other requests so far

vars == <<jobs, proc, tenants, users, flags, reminderLogs, eventLogs, now,
          nextJobId, envChanges>>

----------------------------------------------------------------------------
\* Bounds of the model.
NumTenants == 3
MaxJobs == 2
MaxIds == 2
MaxNow == 2
MaxEnvChanges == 1

\* Program constants.
SMS_COST == 50
OneHour == 1
NullDate == 0 - 1

NullStr == "null"
Users == {"u1", "u2"}
Admins == {"u1"}
\* The users whose requests are explored.
Requesters == {"u1"}
TenantIds == 1 .. NumTenants
JobIds == 1 .. MaxJobs
Methods == {"sms", "email"}
FeatureKeys == {"sms_reminders", "email_reminders"}

\* The tenant collection the system starts with: every third tenant belongs
\* to u2, the others to u1; odd tenants have an email address.
InitTenants ==
    [t \in TenantIds |->
        [userId |-> IF t % 3 = 0 THEN "u2" ELSE "u1",
         email |-> (t % 2 = 1),
         deletedAt |-> NullDate,
         lastReminderSentAt |-> NullDate]]

\* The tenantIds arrays a request may carry.
RequestLists ==
    UNION {[1 .. n -> TenantIds] : n \in 1 .. MaxIds}

\* The values req.body.tenantIds may have: absent, a value that is not an
\* array, or an array (possibly empty) of tenant ids.
JsUndefined == [kind |-> "undefined", items |-> <<>>]
JsString == [kind |-> "string", items |-> <<>>]
JsArray(items) == [kind |-> "array", items |-> items]
RequestTenantIds ==
    {JsUndefined, JsString} \cup {JsArray(s) : s \in RequestLists \cup {<<>>}}

\* The values req.body.method may have: absent, a channel, or something else.
RequestMethods == Methods \cup {NullStr, "whatsapp"}

----------------------------------------------------------------------------
\* Helpers.

\* Object.assign(obj, update)
Assign(obj, update) ==
    [k \in DOMAIN obj \cup DOMAIN update |->
        IF k \in DOMAIN update THEN update[k] ELSE obj[k]]

\* All the orders in which a query may return the documents of set S.
Orderings(S) ==
    {s \in [1 .. Cardinality(S) -> S] :
        \A a, b \in 1 .. Cardinality(S) : a # b => s[a] # s[b]}

\* tenants.filter(t => t.email), over the ids of the documents found
RECURSIVE FilterEmail(_, _)
FilterEmail(s, store) ==
    IF s = <<>> THEN <<>>
    ELSE IF store[Head(s)].email
         THEN <<Head(s)>> \o FilterEmail(Tail(s), store)
         ELSE FilterEmail(Tail(s), store)

Range(s) == {s[k] : k \in DOMAIN s}

----------------------------------------------------------------------------
\* Job registry.

createReminderJob(js, jobId, totalCount, date) ==
    [k \in DOMAIN js \cup {jobId} |->
        IF k = jobId
        THEN [id |-> jobId,
              status |-> "processing",
              total |-> totalCount,
              sent |-> 0,
              failed |-> 0,
              details |-> <<>>,
              totalCost |-> 0,
              startedAt |-> date,
              completedAt |-> NullDate]
        ELSE js[k]]

\* The update applied to every job of the registry instead of the one named.
updateJobProgressAll(js, jobId, update) ==
    IF jobId \in DOMAIN js
    THEN [k \in DOMAIN js |-> Assign(js[k], update)]
    ELSE js

updateJobProgress(js, jobId, update) ==
    IF jobId \in DOMAIN js
    THEN [js EXCEPT ![jobId] = Assign(@, update)]
    ELSE js

\* jobs.get(jobId) || null
NullJob == [id |-> 0, status |-> NullStr]

\* The lookup with failed jobs treated as absent.
getJobStatusFromServiceHidesFailed(js, jobId) ==
    IF jobId \in DOMAIN js /\ js[jobId].status # "failed"
    THEN js[jobId]
    ELSE NullJob

getJobStatusFromService(js, jobId) ==
    IF jobId \in DOMAIN js THEN js[jobId] ELSE NullJob

\* Math.round(((job.sent + job.failed) / job.total) * 100), 0 when total is 0
Progress(job) ==
    IF job.total > 0
    THEN (200 * (job.sent + job.failed) + job.total) \div (2 * job.total)
    ELSE 0

\* The controller's getJobStatus and getJobDetails: the response to a query.
NotFound == [code |-> 404, error |-> "Job not found"]

getJobStatus(js, jobId) ==
    LET job == getJobStatusFromService(js, jobId)
    IN  IF job = NullJob
        THEN NotFound
        ELSE [code |-> 200,
              job |-> [id |-> job.id, status |-> job.status,
                       total |-> job.total, sent |-> job.sent,
                       failed |-> job.failed, totalCost |-> job.totalCost,
                       startedAt |-> job.startedAt,
                       completedAt |-> job.completedAt,
                       progress |-> Progress(job)]]

getJobDetails(js, jobId) ==
    LET job == getJobStatusFromService(js, jobId)
    IN  IF job = NullJob
        THEN NotFound
        ELSE [code |-> 200,
              job |-> [id |-> job.id, status |-> job.status,
                       total |-> job.total, sent |-> job.sent,
                       failed |-> job.failed, totalCost |-> job.totalCost,
                       details |-> job.details,
                       startedAt |-> job.startedAt,
                       completedAt |-> job.completedAt,
                       progress |-> Progress(job)]]

\* The test without the retention window.
ExpiredAtOnce(job, date) ==
    job.completedAt # NullDate

\* job.completedAt && job.completedAt < oneHourAgo
Expired(job, date) ==
    job.completedAt # NullDate /\ job.completedAt < date - OneHour

cleanupOldJobs(js, date) ==
    [k \in {i \in DOMAIN js : ~Expired(js[i], date)} |-> js[k]]

----------------------------------------------------------------------------
\* Collaborators.

\* The query without its userId condition.
MatchingAnyOwner(store, tenantIds, userId) ==
    {t \in TenantIds :
        /\ t \in {tenantIds[k] : k \in DOMAIN tenantIds}
        /\ store[t].deletedAt = NullDate}

\* Tenant.find({_id: {$in: tenantIds}, userId, deletedAt: null}): the set of
\* matching documents; the query states no sort, so any order may come back.
Matching(store, tenantIds, userId) ==
    {t \in TenantIds :
        /\ t \in Range(tenantIds)
        /\ store[t].userId = userId
        /\ store[t].deletedAt = NullDate}

\* The uniform outcome of a channel sender; neither sender ever throws.
SendSMSResults ==
    {[success |-> TRUE, cost |-> SMS_COST, error |-> NullStr],
     [success |-> FALSE, cost |-> 0, error |-> "channel error"]}

SendEmailResults ==
    {[success |-> TRUE, cost |-> 0, error |-> NullStr],
     [success |-> FALSE, cost |-> 0, error |-> "channel error"]}

ChannelResults(method) ==
    IF method = "sms" THEN SendSMSResults ELSE SendEmailResults

\* FeatureFlag.isEnabled(key)
isEnabled(key) == flags[key]

\* The keys of the two methods mixed up.
FeatureKeySwapped(method) ==
    IF method = "sms" THEN "email_reminders" ELSE "sms_reminders"

FeatureKey(method) ==
    IF method = "sms" THEN "sms_reminders" ELSE "email_reminders"

----------------------------------------------------------------------------
\* processRemindersInBackground: the activation record of one call.  Beside
\* the locals of the function it keeps a history of what the collaborators
\* did: chan[k] is what the channel did for recipient k, caught the recipients
\* the inner catch recorded, auditErr the recipients for which a
\* ReminderLog.create rejected, eventErr whether the EventLog write failed,
\* exit the way the function ended.
NoResult == [returned |-> FALSE, success |-> FALSE, cost |-> 0]
Returned(result) ==
    [returned |-> TRUE, success |-> result.success, cost |-> result.cost]

IdleProc ==
    [pc |-> "idle", userId |-> "u1", tenantIds |-> <<>>, method |-> "sms",
     eligible |-> <<>>, i |-> 0, totalCost |-> 0,
     result |-> [success |-> FALSE, cost |-> 0, error |-> NullStr],
     err |-> NullStr, stamp |-> NullDate,
     chan |-> <<>>, caught |-> {}, auditErr |-> {}, eventErr |-> FALSE,
     exit |-> "none"]

StartProc(userId, tenantIds, method) ==
    [IdleProc EXCEPT !.pc = "findUser", !.userId = userId,
                     !.tenantIds = tenantIds, !.method = method]

\* The updates the loop hands to updateJobProgress.
FailedUpdateNoDate(message, date) ==
    [status |-> "failed", error |-> message]

FailedUpdate(message, date) ==
    [status |-> "failed", error |-> message, completedAt |-> date]

TotalUpdateOffByOne(eligibleTenants) ==
    [total |-> Len(eligibleTenants) - 1]

TotalUpdate(eligibleTenants) ==
    [total |-> Len(eligibleTenants)]

DetailOf(tenantId, result) ==
    [tenantId |-> tenantId,
     status |-> IF result.success THEN "sent" ELSE "failed",
     cost |-> result.cost,
     error |-> result.error]

\* Faulty variants of ResultUpdate: every recipient counted as sent; the
\* failed counter recomputed instead of carried over; the new detail put in
\* front of the others; the cost of the last recipient instead of the sum;
\* the detail not written.
ResultUpdateNoDetail(job, result, detail, totalCost) ==
    [sent |-> IF result.success THEN job.sent + 1 ELSE job.sent,
     failed |-> IF result.success THEN job.failed ELSE job.failed + 1,
     totalCost |-> totalCost]

ResultUpdateLastCost(job, result, detail, totalCost) ==
    [sent |-> IF result.success THEN job.sent + 1 ELSE job.sent,
     failed |-> IF result.success THEN job.failed ELSE job.failed + 1,
     details |-> Append(job.details, detail),
     totalCost |-> result.cost]

ResultUpdateAlwaysSent(job, result, detail, totalCost) ==
    [sent |-> job.sent + 1,
     failed |-> job.failed,
     details |-> Append(job.details, detail),
     totalCost |-> totalCost]

ResultUpdateResetFailed(job, result, detail, totalCost) ==
    [sent |-> IF result.success THEN job.sent + 1 ELSE job.sent,
     failed |-> IF result.success THEN 0 ELSE job.failed + 1,
     details |-> Append(job.details, detail),
     totalCost |-> totalCost]

ResultUpdatePrepend(job, result, detail, totalCost) ==
    [sent |-> IF result.success THEN job.sent + 1 ELSE job.sent,
     failed |-> IF result.success THEN job.failed ELSE job.failed + 1,
     details |-> <<detail>> \o job.details,
     totalCost |-> totalCost]

ResultUpdate(job, result, detail, totalCost) ==
    [sent |-> IF result.success THEN job.sent + 1 ELSE job.sent,
     failed |-> IF result.success THEN job.failed ELSE job.failed + 1,
     details |-> Append(job.details, detail),
     totalCost |-> totalCost]

CaughtDetailNoError(tenantId, message) ==
    [tenantId |-> tenantId, status |-> "failed", cost |-> 0, error |-> NullStr]

CaughtDetail(tenantId, message) ==
    [tenantId |-> tenantId, status |-> "failed", cost |-> 0, error |-> message]

CaughtUpdateNoCount(job, detail) ==
    [details |-> Append(job.details, detail)]

CaughtUpdate(job, detail) ==
    [failed |-> job.failed + 1,
     details |-> Append(job.details, detail)]

\* The final update recomputing total from the recipients recorded.
CompletedUpdateResetsTotal(totalCost, date) ==
    [status |-> "completed", totalCost |-> totalCost, completedAt |-> date,
     total |-> 0]

CompletedUpdate(totalCost, date) ==
    [status |-> "completed", totalCost |-> totalCost, completedAt |-> date]

\* The summary event with the cost left out.
SummaryEventNoCost(method, job, totalCost) ==
    [eventType |-> "REMINDERS_SENT",
     method |-> method,
     sent |-> job.sent,
     failed |-> job.failed,
     totalCost |-> 0]

\* The metadata handed to EventLog.logEvent.
SummaryEvent(method, job, totalCost) ==
    [eventType |-> "REMINDERS_SENT",
     method |-> method,
     sent |-> job.sent,
     failed |-> job.failed,
     totalCost |-> totalCost]

\* The for loop's test after recipient p.i: the next await is the send for
\* the next recipient, or EventLog.logEvent when the array is exhausted.
NextPc(p, idx) ==
    IF idx <= Len(p.eligible) THEN "send" ELSE "logEvent"

----------------------------------------------------------------------------
Init ==
    /\ jobs = <<>>
    /\ proc = [j \in JobIds |-> IdleProc]
    /\ tenants = InitTenants
    /\ users = Users
    /\ flags = [k \in FeatureKeys |-> TRUE]
    /\ reminderLogs = [j \in JobIds |-> <<>>]
    /\ eventLogs = [j \in JobIds |-> <<>>]
    /\ now = 0
    /\ nextJobId = 1
    /\ envChanges = 0

----------------------------------------------------------------------------
\* The exploration is bounded to runs in which either several jobs are in
\* the registry or the clock and the stores change, not both: a further job
\* is submitted only while the clock and the stores are as they started, and
\* they change only while at most one job was ever submitted.
Quiet == now = 0 /\ envChanges = 0
Alone == nextJobId <= 2

\* sendReminders (the entry point).  Its awaits only read the stores, and the
\* loop it starts reads them again after the job exists, so the handler is
\* one step.

\* The handler without its feature flag check.
VerdictIgnoresFlag(userId, tenantIds, method) ==
    LET found == Matching(tenants, tenantIds.items, userId)
        withEmail == {t \in found : tenants[t].email}
    IN  IF \/ tenantIds.kind = "undefined"
           \/ tenantIds.kind # "array"
           \/ Len(tenantIds.items) = 0
        THEN "400 tenant ids required"
        ELSE IF method = NullStr \/ method \notin Methods
        THEN "400 bad method"
        ELSE IF userId \notin users THEN "404 user not found"
        ELSE IF found = {} THEN "404 no valid tenants"
        ELSE IF method = "email" /\ withEmail = {} THEN "400 no email addresses"
        ELSE "accepted"

\* The handler without its check that some tenant was found.
VerdictSkipsTenants(userId, tenantIds, method) ==
    LET found == Matching(tenants, tenantIds.items, userId)
        withEmail == {t \in found : tenants[t].email}
    IN  IF \/ tenantIds.kind = "undefined"
           \/ tenantIds.kind # "array"
           \/ Len(tenantIds.items) = 0
        THEN "400 tenant ids required"
        ELSE IF method = NullStr \/ method \notin Methods
        THEN "400 bad method"
        ELSE IF ~isEnabled(FeatureKey(method)) THEN "403 feature unavailable"
        ELSE IF userId \notin users THEN "404 user not found"
        ELSE IF method = "email" /\ withEmail = {} THEN "400 no email addresses"
        ELSE "accepted"

\* The response the handler gives before any job is created, or "accepted".
Verdict(userId, tenantIds, method) ==
    LET found == Matching(tenants, tenantIds.items, userId)
        withEmail == {t \in found : tenants[t].email}
    IN  IF \/ tenantIds.kind = "undefined"
           \/ tenantIds.kind # "array"
           \/ Len(tenantIds.items) = 0
        THEN "400 tenant ids required"
        ELSE IF method = NullStr \/ method \notin Methods
        THEN "400 bad method"
        ELSE IF ~isEnabled(FeatureKey(method)) THEN "403 feature unavailable"
        ELSE IF userId \notin users THEN "404 user not found"
        ELSE IF found = {} THEN "404 no valid tenants"
        ELSE IF method = "email" /\ withEmail = {} THEN "400 no email addresses"
        ELSE "accepted"

EligibleCount(userId, tenantIds, method) ==
    LET found == Matching(tenants, tenantIds, userId)
    IN  IF method = "email"
        THEN Cardinality({t \in found : tenants[t].email})
        ELSE Cardinality(found)

sendReminders(userId, tenantIds, method) ==
    /\ nextJobId <= MaxJobs
    /\ nextJobId = 1 \/ Quiet
    /\ userId \in users
    /\ IF Verdict(userId, tenantIds, method) = "accepted"
       THEN /\ jobs' = createReminderJob(jobs, nextJobId,
                           EligibleCount(userId, tenantIds.items, method),
                           now)
            /\ proc' = [proc EXCEPT ![nextJobId] =
                           StartProc(userId, tenantIds.items, method)]
            /\ nextJobId' = nextJobId + 1
            /\ UNCHANGED <<tenants, users, flags, reminderLogs, eventLogs,
                           now, envChanges>>
       ELSE UNCHANGED vars

----------------------------------------------------------------------------
\* processRemindersInBackground, one await at a time.  Each action takes the
\* activation from the await it waits at to the next one.

\* `return` inside the function: the activation ends.
ReturnMissing == "findTenants"

Return == "done"

\* Without the outermost catch the rejection leaves the function and the job
\* record is not touched.
OuterCatchMissing(j, p, message) ==
    /\ jobs' = jobs
    /\ proc' = [proc EXCEPT ![j] =
                   [p EXCEPT !.pc = "rejected", !.exit = "exception"]]

\* The outermost catch: the job is marked failed with the error's message.
OuterCatch(j, p, message) ==
    /\ jobs' = updateJobProgress(jobs, j, FailedUpdate(message, now))
    /\ proc' = [proc EXCEPT ![j] =
                   [p EXCEPT !.pc = "done", !.exit = "exception"]]

\* The inner catch is entered: the next await is its ReminderLog.create.
Catch(j, p, message) ==
    proc' = [proc EXCEPT ![j] = [p EXCEPT !.pc = "catchLog", !.err = message]]

\* await User.findById(userId) settles.
FindUser(j) ==
    /\ proc[j].pc = "findUser"
    /\ \/ OuterCatch(j, proc[j], "db error")
       \/ /\ proc[j].userId \notin users
          /\ jobs' = updateJobProgress(jobs, j,
                         FailedUpdate("User not found", now))
          /\ proc' = [proc EXCEPT ![j].pc = Return, ![j].exit = "nouser"]
       \/ /\ proc[j].userId \in users
          /\ proc' = [proc EXCEPT ![j].pc = "findTenants"]
          /\ UNCHANGED jobs
    /\ UNCHANGED <<tenants, users, flags, reminderLogs, eventLogs, now,
                   nextJobId, envChanges>>

\* The loop made to iterate the requested ids that were found, in place of
\* the documents found.
ResolvedFromRequest(j, found) ==
    LET p == proc[j]
        kept == SelectSeq(p.tenantIds, LAMBDA t : t \in Range(found))
        eligibleTenants ==
            IF p.method = "email" THEN FilterEmail(kept, tenants) ELSE kept
    IN  IF Len(found) = 0
        THEN /\ jobs' = updateJobProgress(jobs, j,
                            FailedUpdate("No valid tenants found", now))
             /\ proc' = [proc EXCEPT ![j].pc = Return,
                                     ![j].exit = "notenants"]
        ELSE /\ jobs' = updateJobProgress(jobs, j,
                            TotalUpdate(found))
             /\ proc' = [proc EXCEPT
                            ![j].eligible = eligibleTenants,
                            ![j].totalCost = 0,
                            ![j].i = 1,
                            ![j].pc = NextPc([p EXCEPT
                                          !.eligible = eligibleTenants], 1)]

\* await Tenant.find(...).populate(...) settles with the documents `found`;
\* the filter by method and the update of total follow without an await.
Resolved(j, found) ==
    LET p == proc[j]
        eligibleTenants ==
            IF p.method = "email" THEN FilterEmail(found, tenants) ELSE found
    IN  IF Len(found) = 0
        THEN /\ jobs' = updateJobProgress(jobs, j,
                            FailedUpdate("No valid tenants found", now))
             /\ proc' = [proc EXCEPT ![j].pc = Return,
                                     ![j].exit = "notenants"]
        ELSE /\ jobs' = updateJobProgress(jobs, j,
                            TotalUpdate(eligibleTenants))
             /\ proc' = [proc EXCEPT
                            ![j].eligible = eligibleTenants,
                            ![j].totalCost = 0,
                            ![j].i = 1,
                            ![j].pc = NextPc([p EXCEPT
                                          !.eligible = eligibleTenants], 1)]

FindTenants(j) ==
    /\ proc[j].pc = "findTenants"
    /\ \/ OuterCatch(j, proc[j], "db error")
       \/ \E found \in Orderings(Matching(tenants, proc[j].tenantIds,
                                          proc[j].userId)) :
              Resolved(j, found)
    /\ UNCHANGED <<tenants, users, flags, reminderLogs, eventLogs, now,
                   nextJobId, envChanges>>

\* Rendering and await sendSMS / sendEmail.  The senders return a result and
\* never throw; building the email subject dereferences tenant.propertyId,
\* which is null when the property document is gone.
Send(j) ==
    /\ proc[j].pc = "send"
    /\ \/ /\ proc[j].method = "email"
          /\ Catch(j, [proc[j] EXCEPT !.chan = Append(@, NoResult)],
                   "TypeError")
       \/ \E result \in ChannelResults(proc[j].method) :
              proc' = [proc EXCEPT
                          ![j].pc = "log",
                          ![j].result = result,
                          ![j].chan = Append(@, Returned(result))]
    /\ UNCHANGED <<jobs, tenants, users, flags, reminderLogs, eventLogs, now,
                   nextJobId, envChanges>>

\* The cost is accrued, the detail appended and a counter bumped, without an
\* await; then the loop goes on to the next recipient.
Record(j) ==
    LET p == proc[j]
        totalCost == p.totalCost + p.result.cost
        detail == DetailOf(p.eligible[p.i], p.result)
    IN  IF j \in DOMAIN jobs
        THEN /\ jobs' = updateJobProgress(jobs, j,
                            ResultUpdate(jobs[j], p.result, detail, totalCost))
             /\ proc' = [proc EXCEPT ![j].totalCost = totalCost,
                                     ![j].i = p.i + 1,
                                     ![j].pc = NextPc(p, p.i + 1)]
        ELSE /\ Catch(j, [p EXCEPT !.totalCost = totalCost], "TypeError")
             /\ UNCHANGED jobs

\* await ReminderLog.create({... status: result.success ? 'sent' : 'failed'})
\* settles.
Log(j) ==
    /\ proc[j].pc = "log"
    /\ \/ /\ Catch(j, [proc[j] EXCEPT !.auditErr = @ \cup {proc[j].i}],
                   "db error")
          /\ UNCHANGED <<jobs, reminderLogs>>
       \/ /\ reminderLogs' = [reminderLogs EXCEPT ![j] = Append(@,
                 [tenantId |-> proc[j].eligible[proc[j].i],
                  type |-> proc[j].method,
                  status |-> IF proc[j].result.success
                             THEN "sent" ELSE "failed",
                  cost |-> proc[j].result.cost,
                  errorMessage |-> proc[j].result.error])]
          /\ IF proc[j].result.success
             THEN /\ proc' = [proc EXCEPT ![j].pc = "save",
                                          ![j].stamp = now]
                  /\ UNCHANGED jobs
             ELSE Record(j)
    /\ UNCHANGED <<tenants, users, flags, eventLogs, now, nextJobId,
                   envChanges>>

\* The success path without the write of the tenant document.
SaveNoWrite(j) ==
    /\ proc[j].pc = "save"
    /\ \/ /\ Catch(j, proc[j], "db error")
          /\ UNCHANGED <<jobs, tenants>>
       \/ /\ UNCHANGED tenants
          /\ Record(j)
    /\ UNCHANGED <<users, flags, reminderLogs, eventLogs, now, nextJobId,
                   envChanges>>

\* await tenant.save() settles (lastReminderSentAt was set before the call).
Save(j) ==
    /\ proc[j].pc = "save"
    /\ \/ /\ Catch(j, proc[j], "db error")
          /\ UNCHANGED <<jobs, tenants>>
       \/ /\ tenants' = [tenants EXCEPT
                 ![proc[j].eligible[proc[j].i]].lastReminderSentAt =
                     proc[j].stamp]
          /\ Record(j)
    /\ UNCHANGED <<users, flags, reminderLogs, eventLogs, now, nextJobId,
                   envChanges>>

\* The inner catch: await ReminderLog.create({... status: 'failed'}) settles,
\* then the failed detail is recorded.  A rejection of that create is thrown
\* from the catch block itself, so it reaches the outer catch.
CatchLog(j) ==
    LET p == proc[j] IN
    /\ p.pc = "catchLog"
    /\ \/ /\ OuterCatch(j, [p EXCEPT !.auditErr = @ \cup {p.i}], "db error")
          /\ UNCHANGED reminderLogs
       \/ /\ reminderLogs' = [reminderLogs EXCEPT ![j] = Append(@,
                 [tenantId |-> p.eligible[p.i],
                  type |-> p.method,
                  status |-> "failed",
                  cost |-> 0,
                  errorMessage |-> p.err])]
          /\ IF j \in DOMAIN jobs
             THEN /\ jobs' = updateJobProgress(jobs, j,
                       CaughtUpdate(jobs[j],
                                    CaughtDetail(p.eligible[p.i], p.err)))
                  /\ proc' = [proc EXCEPT ![j].i = p.i + 1,
                                          ![j].caught = @ \cup {p.i},
                                          ![j].pc = NextPc(p, p.i + 1)]
             ELSE OuterCatch(j, p, "TypeError")
    /\ UNCHANGED <<tenants, users, flags, eventLogs, now, nextJobId,
                   envChanges>>

\* await EventLog.logEvent(userId, 'REMINDERS_SENT', ...) settles (logEvent
\* swallows its own failure: the event may be missing), then the job is
\* marked completed.
LogEvent(j) ==
    LET p == proc[j] IN
    /\ p.pc = "logEvent"
    /\ IF j \in DOMAIN jobs
       THEN /\ \/ /\ eventLogs' = [eventLogs EXCEPT ![j] = Append(@,
                          SummaryEvent(p.method, jobs[j], p.totalCost))]
                  /\ proc' = [proc EXCEPT ![j].pc = "done",
                                          ![j].exit = "completed"]
               \/ /\ UNCHANGED eventLogs
                  /\ proc' = [proc EXCEPT ![j].pc = "done",
                                          ![j].eventErr = TRUE,
                                          ![j].exit = "completed"]
            /\ jobs' = updateJobProgress(jobs, j,
                           CompletedUpdate(p.totalCost, now))
       ELSE /\ OuterCatch(j, p, "TypeError")
            /\ UNCHANGED eventLogs
    /\ UNCHANGED <<tenants, users, flags, reminderLogs, now, nextJobId,
                   envChanges>>

Step(j) ==
    \/ FindUser(j)
    \/ FindTenants(j)
    \/ Send(j)
    \/ Log(j)
    \/ Save(j)
    \/ CatchLog(j)
    \/ LogEvent(j)

----------------------------------------------------------------------------
\* The sweep timer and the clock.

Sweep ==
    /\ jobs' = cleanupOldJobs(jobs, now)
    /\ UNCHANGED <<proc, tenants, users, flags, reminderLogs, eventLogs, now,
                   nextJobId, envChanges>>

Tick ==
    /\ Alone
    /\ now < MaxNow
    /\ now' = now + 1
    /\ UNCHANGED <<jobs, proc, tenants, users, flags, reminderLogs,
                   eventLogs, nextJobId, envChanges>>

----------------------------------------------------------------------------
\* Other requests that change the stores the engine reads.

\* deleteTenant: tenant.softDelete()
DeleteTenant(t) ==
    /\ Alone
    /\ envChanges < MaxEnvChanges
    /\ tenants[t].deletedAt = NullDate
    /\ tenants' = [tenants EXCEPT ![t].deletedAt = now]
    /\ envChanges' = envChanges + 1
    /\ UNCHANGED <<jobs, proc, users, flags, reminderLogs, eventLogs, now,
                   nextJobId>>

\* updateTenant: tenant.email = email ? sanitizeString(email) : null
UpdateTenantEmail(t) ==
    /\ Alone
    /\ envChanges < MaxEnvChanges
    /\ tenants[t].deletedAt = NullDate
    /\ tenants' = [tenants EXCEPT ![t].email = ~@]
    /\ envChanges' = envChanges + 1
    /\ UNCHANGED <<jobs, proc, users, flags, reminderLogs, eventLogs, now,
                   nextJobId>>

\* seedAdmins --reset: User.deleteMany({ role: 'admin' })
DeleteAdmins ==
    /\ Alone
    /\ envChanges < MaxEnvChanges
    /\ users \cap Admins # {}
    /\ users' = users \ Admins
    /\ envChanges' = envChanges + 1
    /\ UNCHANGED <<jobs, proc, tenants, flags, reminderLogs, eventLogs, now,
                   nextJobId>>

\* toggleFeatureFlag: FeatureFlag.toggleFeature(key, enabled, adminId)
ToggleFeature(key) ==
    /\ Alone
    /\ envChanges < MaxEnvChanges
    /\ flags' = [flags EXCEPT ![key] = ~@]
    /\ envChanges' = envChanges + 1
    /\ UNCHANGED <<jobs, proc, tenants, users, reminderLogs, eventLogs, now,
                   nextJobId>>

----------------------------------------------------------------------------
Next ==
    \/ \E u \in Requesters, ids \in RequestTenantIds, m \in RequestMethods :
           sendReminders(u, ids, m)
    \/ \E j \in JobIds : Step(j)
    \/ Sweep
    \/ Tick
    \/ \E t \in TenantIds : DeleteTenant(t)
    \/ \E t \in TenantIds : UpdateTenantEmail(t)
    \/ DeleteAdmins
    \/ \E k \in FeatureKeys : ToggleFeature(k)

Spec == Init /\ [][Next]_vars

\* Every awaited collaborator call settles, so the event loop resumes every
\* activation that waits: weak fairness of each job's steps.  Checked on the
\* runs of a single job.
LiveNext == Next /\ nextJobId' <= 2

LiveSpec ==
    Init /\ [][LiveNext]_vars /\ \A j \in JobIds : WF_vars(Step(j))

\* The interval timer fires again and again: weak fairness of the sweep.
\* Checked on the runs of a single job, in which the clock advances.
SweepSpec ==
    Init /\ [][LiveNext]_vars /\ WF_vars(Sweep)

----------------------------------------------------------------------------
\* Properties of the job records.

Terminal(job) == job.status \in {"completed", "failed"}

\* C1: for every job in the registry, in every reachable state (while it is
\* processed and after it ended), 0 <= sent + failed <= total.
C1_CountersWithinTotal ==
    \A j \in DOMAIN jobs :
        /\ 0 <= jobs[j].sent + jobs[j].failed
        /\ jobs[j].sent + jobs[j].failed <= jobs[j].total

\* A job whose two recipients are both processed, one sent and one failed.
C1_Witness ==
    \E j \in DOMAIN jobs :
        /\ jobs[j].total = 2
        /\ jobs[j].sent = 1
        /\ jobs[j].failed = 1

\* C2: for every job, at every observation point, the number of detail
\* entries equals sent + failed, whether a recipient went through the
\* success path or through the per-recipient catch.
C2_DetailsMatchCounters ==
    \A j \in DOMAIN jobs :
        Len(jobs[j].details) = jobs[j].sent + jobs[j].failed

\* A job with one recipient recorded by the success path and one recorded by
\* the per-recipient catch.
C2_Witness ==
    \E j \in DOMAIN jobs :
        /\ Len(jobs[j].details) = 2
        /\ jobs[j].sent = 1
        /\ proc[j].caught # {}

\* C3: for every job in every reachable state, completedAt is non-null if and
\* only if status is terminal (completed or failed).
C3_CompletedAtIffTerminal ==
    \A j \in DOMAIN jobs :
        (jobs[j].completedAt # NullDate) <=> Terminal(jobs[j])

\* A job that the outermost catch marked failed: its completedAt is set.
C3_Witness ==
    \E j \in DOMAIN jobs :
        /\ jobs[j].status = "failed"
        /\ proc[j].exit = "exception"
        /\ jobs[j].completedAt # NullDate

----------------------------------------------------------------------------
\* Properties of the dispatch loop.

RECURSIVE SumCost(_)
SumCost(s) == IF s = <<>> THEN 0 ELSE Head(s).cost + SumCost(Tail(s))

\* The recipients (indices into eligibleTenants) for which the channel
\* reported success.
Delivered(p) == {k \in 1 .. Len(p.chan) : p.chan[k].success}

StatusFor(outcome) == IF outcome.success THEN "sent" ELSE "failed"

\* C4: when processing recipient k raised and the audit log accepted the
\* failure record, the loop goes on: entry k of details is failed with a
\* non-null error, and once the function has ended (no failure record having
\* been refused) the job is completed with one detail per eligible recipient,
\* the other recipients counted by their own channel outcome.
C4_RecipientFailureIsolated ==
    \A j \in DOMAIN jobs :
        LET p == proc[j]
            job == jobs[j]
            N == Len(p.eligible)
        IN  (p.caught # {} /\ p.exit # "exception") =>
                /\ \A k \in p.caught :
                       /\ k < p.i
                       /\ k <= Len(job.details)
                       /\ job.details[k].tenantId = p.eligible[k]
                       /\ job.details[k].status = "failed"
                       /\ job.details[k].error # NullStr
                /\ p.pc = "done" =>
                       /\ job.status = "completed"
                       /\ Len(job.details) = N
                       /\ \A m \in (1 .. N) \ p.caught :
                              job.details[m].status = StatusFor(p.chan[m])
                       /\ job.sent = Cardinality(Delivered(p) \ p.caught)
                       /\ job.failed = N - job.sent

\* Recipient 1 of 2 raised, recipient 2 was delivered, the job completed.
C4_Witness ==
    \E j \in DOMAIN jobs :
        /\ proc[j].pc = "done"
        /\ proc[j].caught = {1}
        /\ Len(proc[j].eligible) = 2
        /\ jobs[j].status = "completed"
        /\ jobs[j].sent = 1
        /\ jobs[j].failed = 1

\* C5: a ReminderLog.create that rejects is swallowed: the job does not
\* become failed, the recipient's detail keeps the status the channel
\* outcome dictates, and the remaining recipients are processed.
C5_AuditFailureSwallowed ==
    \A j \in DOMAIN jobs :
        LET p == proc[j]
            job == jobs[j]
        IN  p.auditErr # {} =>
                /\ job.status # "failed"
                /\ \A k \in p.auditErr :
                       k <= Len(job.details) =>
                           job.details[k].status = StatusFor(p.chan[k])
                /\ p.pc = "done" => Len(job.details) = Len(p.eligible)

\* C6: every accepted job eventually reaches a terminal status; an exception
\* inside processRemindersInBackground neither leaves the job in processing
\* nor leaves the function as a rejection.
C6_EveryJobTerminates ==
    \A j \in JobIds :
        (proc[j].pc # "idle") ~>
            (/\ proc[j].pc = "done"
             /\ j \in DOMAIN jobs => Terminal(jobs[j]))

\* A job that an exception ended: it is failed, not processing.
C6_Witness ==
    \E j \in DOMAIN jobs :
        /\ proc[j].pc = "done"
        /\ proc[j].exit = "exception"
        /\ proc[j].auditErr # {}
        /\ jobs[j].status = "failed"

\* C7: a job with N eligible recipients in which no collaborator call raised
\* ends completed with N details, sent = the number of successful channel
\* outcomes, failed = N - sent and totalCost = the sum of the recipients'
\* costs; a job whose recipients all failed is completed too.
C7_NoRaiseOutcome ==
    \A j \in DOMAIN jobs :
        LET p == proc[j]
            job == jobs[j]
            N == Len(p.eligible)
        IN  (/\ p.pc = "done"
             /\ p.i >= 1
             /\ p.caught = {}
             /\ p.exit # "exception") =>
                /\ job.status = "completed"
                /\ Len(job.details) = N
                /\ job.sent = Cardinality(Delivered(p))
                /\ job.failed = N - job.sent
                /\ job.totalCost = SumCost(p.chan)
                /\ job.totalCost = SumCost(job.details)

\* Two recipients, the first delivered at a cost and the second refused by
\* the channel, nothing raised: the job is completed.
C7_Witness ==
    \E j \in DOMAIN jobs :
        /\ proc[j].pc = "done"
        /\ proc[j].caught = {}
        /\ proc[j].exit = "completed"
        /\ Len(proc[j].eligible) = 2
        /\ jobs[j].sent = 1
        /\ jobs[j].failed = 1
        /\ jobs[j].totalCost = SMS_COST

\* C8: from one observation of a job to the next, sent, failed and the
\* number of details never decrease.
C8_CountersNeverRegress ==
    [][\A j \in DOMAIN jobs \cap DOMAIN jobs' :
          /\ jobs'[j].sent >= jobs[j].sent
          /\ jobs'[j].failed >= jobs[j].failed
          /\ Len(jobs'[j].details) >= Len(jobs[j].details)]_vars

\* A job observed with failed = 1 while its next recipient, delivered by the
\* channel, is about to be recorded.
C8_Witness ==
    \E j \in DOMAIN jobs :
        /\ jobs[j].status = "processing"
        /\ jobs[j].failed = 1
        /\ proc[j].pc = "save"

\* C9: a job's status only goes from processing to completed or to failed;
\* a terminal job does not change in any field as long as it is in the
\* registry, so completedAt is assigned once.
C9_TerminalIsFinal ==
    [][\A j \in DOMAIN jobs \cap DOMAIN jobs' :
          /\ jobs'[j].status # jobs[j].status =>
                 jobs[j].status = "processing" /\ Terminal(jobs'[j])
          /\ Terminal(jobs[j]) => jobs'[j] = jobs[j]
          /\ jobs'[j].completedAt # jobs[j].completedAt =>
                 jobs[j].completedAt = NullDate]_vars

\* A failed job that is still in the registry after the clock moved on.
C9_Witness ==
    \E j \in DOMAIN jobs :
        /\ jobs[j].status = "failed"
        /\ now > jobs[j].completedAt

\* The position of the first occurrence of x in s.
FirstIndex(s, x) == CHOOSE k \in 1 .. Len(s) : s[k] = x /\ \A m \in 1 .. (k - 1) : s[m] # x

----------------------------------------------------------------------------
\* Properties of the entry point.

\* The jobs a step adds to the registry, and the activations it starts.
Created == DOMAIN jobs' \ DOMAIN jobs
Started == {j \in JobIds : proc[j].pc = "idle" /\ proc'[j].pc # "idle"}

\* C11: a request whose recipient list is missing, not an array or empty,
\* whose method is neither sms nor email, whose method's feature flag is
\* disabled, or whose method is email while no selected recipient has an
\* email address, is rejected without a job: a step adds a job to the registry
\* only together with its dispatch loop, and only for a request with a
\* non-empty list, a valid method, the flag enabled and, for email, a selected
\* recipient that has an email address.
C11_RejectedCreatesNoJob ==
    [][/\ Created = Started
       /\ \A j \in Created :
              LET p == proc'[j]
                  selected == Matching(tenants, p.tenantIds, p.userId)
              IN  /\ Len(p.tenantIds) > 0
                  /\ p.method \in Methods
                  /\ isEnabled(FeatureKey(p.method))
                  /\ p.method = "email" =>
                         \E t \in selected : tenants[t].email]_vars

\* A state in which the sms flag is disabled and an sms request for an own
\* tenant is answered 403, the registry holding no job.
C11_Witness ==
    /\ ~isEnabled("sms_reminders")
    /\ "u1" \in users
    /\ Verdict("u1", JsArray(<<1>>), "sms") = "403 feature unavailable"
    /\ jobs = <<>>

\* The requests of existing users that pass the checks on the body and the
\* feature flag while none of their ids resolves to a tenant of the user that
\* is not soft-deleted.
ZeroResolvable ==
    {r \in (Requesters \cap users) \X RequestLists \X Methods :
        /\ isEnabled(FeatureKey(r[3]))
        /\ Matching(tenants, r[2], r[1]) = {}}

\* C12 as claimed: a request whose ids all belong to a different owner
\* yields a job (which then fails with no details and an error).
C12_ZeroResolvableYieldsJob ==
    \A r \in ZeroResolvable : Verdict(r[1], JsArray(r[2]), r[3]) = "accepted"

\* C12 as amended: such a request is answered 404 by the entry point and no
\* job is created for it; a job whose recipients resolve to nothing (the
\* store changed after the request was accepted) is failed with no details,
\* zero counters, the error set and completedAt set.
C12_ZeroResolvableRejected ==
    /\ \A r \in ZeroResolvable :
           Verdict(r[1], JsArray(r[2]), r[3]) = "404 no valid tenants"
    /\ \A j \in DOMAIN jobs :
           proc[j].exit = "notenants" =>
               /\ jobs[j].status = "failed"
               /\ jobs[j].details = <<>>
               /\ jobs[j].sent = 0 /\ jobs[j].failed = 0
               /\ "error" \in DOMAIN jobs[j]
               /\ jobs[j].error = "No valid tenants found"
               /\ jobs[j].completedAt # NullDate

\* A request for a tenant of another owner is answered 404 while the
\* registry holds a job whose only recipient was deleted after acceptance.
C12_Witness ==
    /\ <<"u1", <<3>>, "sms">> \in ZeroResolvable
    /\ \E j \in DOMAIN jobs :
           /\ proc[j].exit = "notenants"
           /\ jobs[j].status = "failed"

----------------------------------------------------------------------------
\* Properties of the queries and of the sweep.

\* C13: a status or detail query answers 'not found' exactly when the id is
\* not in the registry; an id that sendReminders handed out resolves to its
\* job, with the job's own status (failed included), from its creation on,
\* and is missing only after its job ended and the sweep removed it past the
\* retention window.
C13_NotFoundIffAbsent ==
    \A j \in JobIds :
        LET st == getJobStatus(jobs, j)
            dt == getJobDetails(jobs, j)
        IN  /\ (st = NotFound) <=> (j \notin DOMAIN jobs)
            /\ (dt = NotFound) <=> (j \notin DOMAIN jobs)
            /\ j \in DOMAIN jobs =>
                   /\ st.code = 200 /\ dt.code = 200
                   /\ st.job.id = j /\ dt.job.id = j
                   /\ st.job.status = jobs[j].status
                   /\ dt.job.status = jobs[j].status
                   /\ dt.job.details = jobs[j].details
            /\ j >= nextJobId => j \notin DOMAIN jobs
            /\ (j < nextJobId /\ j \notin DOMAIN jobs) =>
                   (proc[j].pc = "done" /\ now > OneHour)

\* A failed job that both queries return as a job with status failed.
C13_Witness ==
    \E j \in DOMAIN jobs :
        /\ jobs[j].status = "failed"
        /\ getJobStatus(jobs, j).code = 200
        /\ getJobStatus(jobs, j).job.status = "failed"
        /\ getJobDetails(jobs, j).job.status = "failed"

\* A job is past its retention window: it ended more than one hour ago.
PastRetention(job) ==
    job.completedAt # NullDate /\ now - job.completedAt > OneHour

----------------------------------------------------------------------------
\* Properties of concurrent jobs.

\* What an activation that ran to the end of its loop produces from the
\* outcomes its own collaborator calls had: the status and the cost of the
\* detail of recipient k.
OwnStatus(p, k) ==
    IF k \in p.caught THEN "failed" ELSE StatusFor(p.chan[k])
OwnCost(p, k) ==
    IF k \in p.caught THEN 0 ELSE p.chan[k].cost
OwnSent(p) == {k \in 1 .. Len(p.eligible) : OwnStatus(p, k) = "sent"}

\* C15: jobs processed concurrently, their steps interleaved at every await,
\* do not interfere: an activation is started only under an id the registry
\* does not hold; a step in which one job's loop moves leaves every other
\* job's record unchanged, and a record changes only in a step of its own
\* loop; and a job whose loop ran to its end has the counters and details
\* that the outcomes of its own collaborator calls dictate, as if it had run
\* alone.
C15_JobsIndependent ==
    /\ [][/\ \A j \in Started : j \notin DOMAIN jobs
          /\ \A j \in JobIds, k \in DOMAIN jobs \cap DOMAIN jobs' :
                 (j # k /\ proc'[j] # proc[j]) => jobs'[k] = jobs[k]
          /\ \A k \in DOMAIN jobs \cap DOMAIN jobs' :
                 jobs'[k] # jobs[k] => proc'[k] # proc[k]]_vars
    /\ [](\A j \in DOMAIN jobs :
             LET p == proc[j]
                 job == jobs[j]
                 N == Len(p.eligible)
             IN  /\ job.id = j
                 /\ p.exit = "completed" =>
                        /\ Len(job.details) = N
                        /\ \A k \in 1 .. N :
                               /\ job.details[k].tenantId = p.eligible[k]
                               /\ job.details[k].status = OwnStatus(p, k)
                               /\ job.details[k].cost = OwnCost(p, k)
                        /\ job.sent = Cardinality(OwnSent(p))
                        /\ job.failed = N - Cardinality(OwnSent(p))
                        /\ job.totalCost = SMS_COST * Cardinality(
                               {k \in OwnSent(p) : p.method = "sms"}))

\* Two jobs of the same user for the same recipient, both run to the end,
\* one with the recipient sent and the other with it failed.
C15_Witness ==
    /\ DOMAIN jobs = {1, 2}
    /\ proc[1].exit = "completed" /\ proc[2].exit = "completed"
    /\ proc[1].userId = proc[2].userId
    /\ proc[1].tenantIds = proc[2].tenantIds
    /\ proc[1].method = proc[2].method
    /\ jobs[1].sent = 1 /\ jobs[1].failed = 0
    /\ jobs[2].sent = 0 /\ jobs[2].failed = 1

----------------------------------------------------------------------------
\* Properties of job-level failures and of the totals.

\* C16: a job-level failure carries no partial results: every failed job,
\* that is every job whose error field is set, has no details and
\* sent = failed = 0.
C16_FailedHasNoDetails ==
    \A j \in DOMAIN jobs :
        (jobs[j].status = "failed" \/ "error" \in DOMAIN jobs[j]) =>
            /\ jobs[j].details = <<>>
            /\ jobs[j].sent = 0
            /\ jobs[j].failed = 0

\* C17: at every observation point a job's totalCost is the sum of the cost
\* fields of its details, and it is 0 for every job whose method is email.
C17_TotalCostIsSumOfDetails ==
    \A j \in DOMAIN jobs :
        /\ jobs[j].totalCost = SumCost(jobs[j].details)
        /\ proc[j].method = "email" => jobs[j].totalCost = 0

\* An sms job with two recipients delivered at a cost: its totalCost is twice
\* the price of a message.
C17_Witness ==
    \E j \in DOMAIN jobs :
        /\ proc[j].method = "sms"
        /\ Len(jobs[j].details) = 2
        /\ jobs[j].totalCost = 2 * SMS_COST

\* C18: createReminderJob called with an id that the registry already holds
\* leaves the existing record as it is: status, counters, details and
\* startedAt are not reset.
C18_CreateKeepsExistingJob ==
    \A j \in DOMAIN jobs :
        \A totalCount \in 0 .. MaxIds :
            createReminderJob(jobs, j, totalCount, now)[j] = jobs[j]

\* C19: when resolution finds no user, or no eligible recipient (owned by the
\* user, not soft-deleted and, for email, with an email address), the job
\* goes directly to failed with error and completedAt set: no channel send is
\* made and the job never is completed, also when the store changed between
\* acceptance and resolution.
C19_EmptyResolutionFails ==
    \A j \in DOMAIN jobs :
        LET p == proc[j]
        IN  (p.pc \notin {"idle", "findUser", "findTenants"}
                 /\ p.eligible = <<>>) =>
                /\ jobs[j].status = "failed"
                /\ "error" \in DOMAIN jobs[j]
                /\ jobs[j].completedAt # NullDate
                /\ p.chan = <<>>
                /\ p.pc = "done"

\* C20: after creation a job's total changes at most once: only the step in
\* which the recipients are resolved changes it, to the number of eligible
\* recipients, before any recipient is processed; total never changes while
\* details is non-empty or once the job is terminal.
C20_TotalSetOnceAtResolution ==
    [][\A j \in DOMAIN jobs \cap DOMAIN jobs' :
          jobs'[j].total # jobs[j].total =>
              /\ proc[j].pc = "findTenants"
              /\ proc'[j].pc # "findTenants"
              /\ jobs'[j].total = Len(proc'[j].eligible)
              /\ proc[j].chan = <<>>
              /\ jobs[j].details = <<>>
              /\ jobs'[j].details = <<>>
              /\ ~Terminal(jobs[j])]_vars

\* A job accepted for two recipients, one of which was deleted after the
\* job was created: resolution corrected its total to 1.
C20_Witness ==
    \E j \in DOMAIN jobs :
        /\ proc[j].method = "sms"
        /\ proc[j].tenantIds = <<1, 2>>
        /\ tenants[2].deletedAt > jobs[j].startedAt
        /\ proc[j].eligible = <<1>>
        /\ jobs[j].total = 1

----------------------------------------------------------------------------
\* Properties of the audit trail and of the sends.

\* C21 as claimed: every completed job has exactly one REMINDERS_SENT event,
\* a failed job has none, and the event carries the job's final sent, failed
\* and totalCost.
C21_ExactlyOneSummaryEvent ==
    \A j \in DOMAIN jobs :
        /\ jobs[j].status = "completed" =>
               /\ Len(eventLogs[j]) = 1
               /\ eventLogs[j][1].sent = jobs[j].sent
               /\ eventLogs[j][1].failed = jobs[j].failed
               /\ eventLogs[j][1].totalCost = jobs[j].totalCost
        /\ jobs[j].status = "failed" => eventLogs[j] = <<>>

\* C21 as amended: a completed job has exactly one REMINDERS_SENT event when
\* the write of the event succeeded and none when it failed (logEvent
\* swallows the failure); no job has more than one, a failed job has none,
\* and an event carries the sent, failed and totalCost the job ends with.
C21_OneSummaryEventUnlessLost ==
    \A j \in DOMAIN jobs :
        /\ Len(eventLogs[j]) <= 1
        /\ jobs[j].status = "completed" =>
               Len(eventLogs[j]) = IF proc[j].eventErr THEN 0 ELSE 1
        /\ jobs[j].status = "failed" => eventLogs[j] = <<>>
        /\ \A e \in 1 .. Len(eventLogs[j]) :
               /\ jobs[j].status = "completed"
               /\ eventLogs[j][e].eventType = "REMINDERS_SENT"
               /\ eventLogs[j][e].method = proc[j].method
               /\ eventLogs[j][e].sent = jobs[j].sent
               /\ eventLogs[j][e].failed = jobs[j].failed
               /\ eventLogs[j][e].totalCost = jobs[j].totalCost

\* A completed sms job with a delivered recipient and its summary event.
C21_Witness ==
    \E j \in DOMAIN jobs :
        /\ jobs[j].status = "completed"
        /\ jobs[j].totalCost = SMS_COST
        /\ Len(eventLogs[j]) = 1
        /\ ~proc[j].eventErr

\* The channel send of job j is in flight: the loop waits for it to settle.
InFlight(j) == proc[j].pc = "send"

\* C22: within one job at most one channel send is in flight: while the send
\* for recipient i is in flight every earlier send has settled, and the
\* detail and the counter increment of every earlier recipient are in the
\* job record; a send never is in flight for a job that has ended.
C22_OneSendInFlight ==
    \A j \in DOMAIN jobs :
        LET p == proc[j]
        IN  /\ Len(p.chan) <= p.i
            /\ InFlight(j) =>
                   /\ Len(p.chan) = p.i - 1
                   /\ Len(jobs[j].details) = p.i - 1
                   /\ jobs[j].sent + jobs[j].failed = p.i - 1
                   /\ \A k \in 1 .. (p.i - 1) :
                          jobs[j].details[k].tenantId = p.eligible[k]
                   /\ jobs[j].status = "processing"

\* The sends of two jobs are in flight at the same time, one of them for
\* the job's second recipient.
C22_Witness ==
    /\ DOMAIN jobs = {1, 2}
    /\ InFlight(1) /\ InFlight(2)
    /\ proc[1].i = 2
    /\ Len(jobs[1].details) = 1

\* C23: between two consecutive channel sends of one job the loop performs a
\* delay step: the send for any recipient after the first is started by the
\* step that ends the delay.
C23_DelayBetweenSends ==
    [][\A j \in JobIds :
          (~InFlight(j) /\ proc'[j].pc = "send" /\ proc'[j].i > 1)
              => proc[j].pc = "delay"]_vars

\* r is 100 * n / t rounded to the nearest integer, halves rounded up.
IsRounded(r, n, t) ==
    /\ 2 * t * r <= 200 * n + t
    /\ 200 * n + t < 2 * t * (r + 1)

\* C24: the progress both queries return is round(100 * (sent + failed) /
\* total) when total > 0 and 0 otherwise; it lies in 0 .. 100 and it is 100
\* for every completed job.
C24_ProgressPercentage ==
    \A j \in DOMAIN jobs :
        LET job == jobs[j]
            st == getJobStatus(jobs, j).job.progress
            dt == getJobDetails(jobs, j).job.progress
        IN  /\ st = dt
            /\ IF job.total > 0
               THEN IsRounded(st, job.sent + job.failed, job.total)
               ELSE st = 0
            /\ st \in 0 .. 100
            /\ job.status = "completed" => st = 100

\* C25: a recipient's lastReminderSentAt is written only after the channel
\* reported success for that recipient in some job, and every recipient
\* whose detail is 'sent' had lastReminderSentAt written, during the job, by
\* the time the detail is in the job record.
C25_LastReminderAfterSuccess ==
    /\ \A t \in TenantIds :
           tenants[t].lastReminderSentAt # NullDate =>
               \E j \in JobIds :
                   \E k \in 1 .. Len(proc[j].chan) :
                       /\ proc[j].eligible[k] = t
                       /\ proc[j].chan[k].success
    /\ \A j \in DOMAIN jobs :
           \A k \in 1 .. Len(jobs[j].details) :
               jobs[j].details[k].status = "sent" =>
                   LET t == jobs[j].details[k].tenantId
                   IN  /\ tenants[t].lastReminderSentAt # NullDate
                       /\ tenants[t].lastReminderSentAt >= jobs[j].startedAt

\* A job with one recipient sent and one failed: the first has its
\* lastReminderSentAt written, the second has not.
C25_Witness ==
    \E j \in DOMAIN jobs :
        /\ Len(jobs[j].details) = 2
        /\ jobs[j].details[1].status = "sent"
        /\ jobs[j].details[2].status = "failed"
        /\ tenants[jobs[j].details[1].tenantId].lastReminderSentAt # NullDate
        /\ tenants[jobs[j].details[2].tenantId].lastReminderSentAt = NullDate

\* The audit entries job j wrote about tenant t (positions in its log).
EntriesAbout(j, t) ==
    {e \in 1 .. Len(reminderLogs[j]) : reminderLogs[j][e].tenantId = t}

\* C26: for every recipient a job processed exactly one ReminderLog entry
\* is written, with the status and the cost of the recipient's detail; no
\* recipient has both a 'sent' and a 'failed' entry of the same job.
C26_OneAuditEntryPerRecipient ==
    \A j \in DOMAIN jobs :
        \A k \in 1 .. Len(jobs[j].details) :
            LET d == jobs[j].details[k]
                es == EntriesAbout(j, d.tenantId)
            IN  /\ Cardinality(es) = 1
                /\ \A e \in es :
                       /\ reminderLogs[j][e].status = d.status
                       /\ reminderLogs[j][e].cost = d.cost

\* C27: a recipient's detail is 'sent' if and only if the channel reported
\* success for that recipient; hence, once every recipient is recorded, sent
\* is the number of successful deliveries and totalCost the cost the channel
\* charged for them.
C27_SentIffChannelSuccess ==
    \A j \in DOMAIN jobs :
        LET p == proc[j]
            job == jobs[j]
        IN  /\ \A k \in 1 .. Len(job.details) :
                   (job.details[k].status = "sent") <=> p.chan[k].success
            /\ Len(job.details) = Len(p.chan) =>
                   /\ job.sent = Cardinality(Delivered(p))
                   /\ job.totalCost = SumCost(p.chan)

\* The feature flag of a method is enabled.
FlagOn(method) ==
    IF method = "sms" THEN flags["sms_reminders"] ELSE flags["email_reminders"]

----------------------------------------------------------------------------
\* Properties of the recipients of a job.

\* The step in which job j resolves its recipients.
Resolving(j) == proc[j].pc = "findTenants" /\ proc'[j].pc # "findTenants"

\* C29: the recipients a job works on are fixed by its resolution step and
\* are, at that step, requested ids that belong to the job's user and are
\* not soft-deleted; every send, detail and audit entry of the job concerns
\* one of them, and total counts them alone.
C29_OnlyOwnLiveRecipients ==
    /\ [][\A j \in JobIds :
             /\ proc'[j].eligible # proc[j].eligible => Resolving(j)
             /\ Resolving(j) =>
                    \A k \in 1 .. Len(proc'[j].eligible) :
                        LET t == proc'[j].eligible[k]
                        IN  /\ t \in Range(proc[j].tenantIds)
                            /\ tenants[t].userId = proc[j].userId
                            /\ tenants[t].deletedAt = NullDate
             /\ (Resolving(j) /\ proc'[j].exit = "none"
                      /\ j \in DOMAIN jobs') =>
                    jobs'[j].total = Len(proc'[j].eligible)]_vars
    /\ [](\A j \in JobIds :
             /\ Len(proc[j].chan) <= Len(proc[j].eligible)
             /\ \A e \in 1 .. Len(reminderLogs[j]) :
                    reminderLogs[j][e].tenantId \in Range(proc[j].eligible)
             /\ j \in DOMAIN jobs =>
                    \A k \in 1 .. Len(jobs[j].details) :
                        jobs[j].details[k].tenantId
                            \in Range(proc[j].eligible))

\* A finished job requested for an own tenant and a tenant of another
\* user: its total is 1 and its only detail is about the own tenant.
C29_Witness ==
    \E j \in DOMAIN jobs :
        /\ proc[j].userId = "u1"
        /\ proc[j].tenantIds = <<1, 3>>
        /\ tenants[3].userId = "u2"
        /\ proc[j].pc = "done"
        /\ jobs[j].total = 1
        /\ Len(jobs[j].details) = 1
        /\ jobs[j].details[1].tenantId = 1
        /\ Len(proc[j].chan) = 1

\* The number of channel sends job j attempted for tenant t.
SendsTo(j, t) ==
    Cardinality({k \in 1 .. Len(proc[j].chan) : proc[j].eligible[k] = t})

\* C30: within one job every recipient gets at most one send attempt: the
\* loop never goes back to a recipient, whether its send failed or raised,
\* a tenant named several times in the request is processed once, and the
\* number of sends of a job never exceeds its total.
C30_AtMostOneSendPerRecipient ==
    /\ [][\A j \in JobIds :
             /\ proc'[j].i >= proc[j].i
             /\ Len(proc'[j].chan) >= Len(proc[j].chan)]_vars
    /\ [](\A j \in JobIds :
             /\ Len(proc[j].chan) <= proc[j].i
             /\ \A t \in TenantIds : SendsTo(j, t) <= 1
             /\ j \in DOMAIN jobs => Len(proc[j].chan) <= jobs[j].total)

\* A finished job whose request named tenant 1 twice: one send, which
\* failed and was not repeated.
C30_Witness ==
    \E j \in DOMAIN jobs :
        /\ proc[j].tenantIds = <<1, 1>>
        /\ proc[j].pc = "done"
        /\ Len(proc[j].chan) = 1
        /\ ~proc[j].chan[1].success
        /\ jobs[j].total = 1
        /\ jobs[j].failed = 1

====
